---- MODULE Spec2Model ----
(***************************************************************************)
(* A model of mogger's comment store, permission core and sessions.        *)
(*                                                                         *)
(* The store is the Postgres database behind the shared connection: the    *)
(* tables comments, users, groups and sessions, and the serial that        *)
(* numbers the comments.  Option<T> is a sequence of length at most one:   *)
(* None is <<>> and Some(x) is <<x>>.  A Vec<T> is a sequence.             *)
(***************************************************************************)
EXTENDS Integers, Sequences, FiniteSets, TLC

\* ------------------------------------------------------------------ bounds

\* The largest number of comment rows the store holds.
MaxComments == 3
\* The largest context depth a view request carries.
MaxContext == 2
\* The longest permission vector a drawn group row holds.
MaxPerms == 2
\* The largest number of comment rows submitted under SpecStore.
MaxRows == 2
\* The largest number of articles stored under SpecGate.
MaxArticles == 2
\* The number of worker threads, each serving one request at a time.
MaxRequests == 2
\* The largest number of sessions created under SpecSession.
MaxSessions == 2
\* The last day the clock of SpecSession reaches.
MaxNow == 32

\* ------------------------------------------------------------------ program constants

\* Session::new: expires is now plus Duration::days(30).
SessionDays == 30

\* ------------------------------------------------------------------ values

None == <<>>
Some(x) == <<x>>
IsSome(o) == Len(o) = 1
Unwrap(o) == o[1]

\* user.rs: enum Permission (closed).
Permission ==
    { "All",
      "CreateArticle", "EditArticle", "DeleteArticle",
      "EditForeignArticle", "DeleteForeignArticle",
      "CreateComment", "EditComment", "DeleteComment",
      "EditForeignComment", "DeleteForeignComment",
      "CreateUser", "EditForeignUser", "DeleteForeignUser" }

\* The tokens the drawn group rows are built from.
PermSample ==
    { "All", "EditComment", "EditForeignComment",
      "EditArticle", "EditForeignArticle", "EditForeignUser" }

UserIds == { "alice", "bob" }
GroupIds == { "default" }
ArticleIds == { 1, 2 }

\* Every sequence over S of length at most n.
RECURSIVE SeqsUpTo(_, _)
SeqsUpTo(S, n) ==
    IF n = 0 THEN { <<>> }
    ELSE LET shorter == SeqsUpTo(S, n - 1)
         IN  shorter \cup { Append(s, x) : s \in { t \in shorter : Len(t) = n - 1 }, x \in S }

Range(s) == { s[i] : i \in DOMAIN s }

\* ------------------------------------------------------------------ state

VARIABLES
    comments,        \* table comments, in heap order: a sequence of Comment rows
    nextId,          \* the serial behind comments.id
    users,           \* table users: id -> [group]
    groups,          \* table groups: id -> Vec<Permission>
    guest_comments,  \* Settings.features.guest_comments
    sessions,        \* table sessions: a set of Session rows [id, user, expires]
    nextSession,     \* the number of session ids drawn so far, plus one
    now,             \* the clock Utc::now() reads, in days
    resp,            \* what the last request or call returned
    articles,        \* table articles, in heap order: a sequence of Article rows
    nextArticle,     \* the serial behind articles.id
    requests,        \* the requests in flight: worker thread -> where it stands
    lock             \* the thread holding the Mutex of DbConnection, 0 when it is free

\* The worker threads, and a thread between two requests.
Slots == 1..MaxRequests
Idle ==
    [pc |-> "idle", kind |-> "none", cookie |-> None, user |-> "", attached |-> None,
     status |-> ""]

vars == <<comments, nextId, users, groups, guest_comments, sessions, nextSession, now, resp,
          articles, nextArticle, requests, lock>>

\* A session as the handlers see it: Option<&Session>, of which only the user is read.
Session(u) == [user |-> u]
SessionOpts == { None } \cup { Some(Session(u)) : u \in UserIds }

\* ------------------------------------------------------------------ permission model
\* Every operator that takes the connection returns [res, q]: res is "true", "false"
\* or "err" (Ok(true), Ok(false), Err(_)), q the tables it queried, in order.

\* Vec::contains: a linear scan.
RECURSIVE Contains(_, _)
Contains(vec, x) ==
    IF vec = <<>> THEN FALSE
    ELSE IF Head(vec) = x THEN TRUE
    ELSE Contains(Tail(vec), x)

Bool(b) == IF b THEN "true" ELSE "false"

\* A plausible slip: the wildcard is forgotten.
UserAllowedNoWildcard(user, permission) ==
    IF user.group \notin DOMAIN groups
    THEN [res |-> "err", q |-> <<"groups">>]
    ELSE [res |-> Bool(Contains(groups[user.group], permission)),
          q |-> <<"groups">>]

\* User::allowed
UserAllowed(user, permission) ==
    IF user.group \notin DOMAIN groups
    THEN [res |-> "err", q |-> <<"groups">>]
    ELSE [res |-> Bool(Contains(groups[user.group], permission)
                       \/ Contains(groups[user.group], "All")),
          q |-> <<"groups">>]

\* user::get, behind Session::user
UserGet(id) ==
    IF id \in DOMAIN users
    THEN [res |-> "ok", row |-> users[id], q |-> <<"users">>]
    ELSE [res |-> "err", row |-> [id |-> id, group |-> ""], q |-> <<"users">>]

\* A plausible slip: a missing user row reads as a denial.
SessionAllowedDenies(session, permission) ==
    LET u == UserGet(session.user)
    IN  IF u.res = "err" THEN [res |-> "false", q |-> u.q]
        ELSE LET a == UserAllowed(u.row, permission)
             IN  [res |-> a.res, q |-> u.q \o a.q]

\* Session::allowed
SessionAllowed(session, permission) ==
    LET u == UserGet(session.user)
    IN  IF u.res = "err" THEN [res |-> "err", q |-> u.q]
        ELSE LET a == UserAllowed(u.row, permission)
             IN  [res |-> a.res, q |-> u.q \o a.q]

\* The own-or-foreign rule as Rust evaluates it: foreign? || (own? && owns), each ?
\* returning early with the error, || and && short-circuiting.
OwnOrForeign(session, foreign, own, owns) ==
    LET f == SessionAllowed(session, foreign)
    IN  IF f.res # "false" THEN f
        ELSE LET o == SessionAllowed(session, own)
             IN  IF o.res # "true" THEN [res |-> o.res, q |-> f.q \o o.q]
                 ELSE [res |-> Bool(owns), q |-> f.q \o o.q]

\* A plausible slip: || and && grouped the other way: (foreign? || own?) && owns.
CommentEditableRegrouped(comment, session) ==
    IF session = None THEN [res |-> "false", q |-> <<>>]
    ELSE LET s == Unwrap(session)
             f == SessionAllowed(s, "EditForeignComment")
             owns == IsSome(comment.author) /\ Unwrap(comment.author) = s.user
         IN  IF f.res = "err" THEN f
             ELSE IF f.res = "true" THEN [res |-> Bool(owns), q |-> f.q]
             ELSE LET o == SessionAllowed(s, "EditComment")
                  IN  IF o.res # "true" THEN [res |-> o.res, q |-> f.q \o o.q]
                      ELSE [res |-> Bool(owns), q |-> f.q \o o.q]

\* Comment::editable
CommentEditable(comment, session) ==
    IF session = None THEN [res |-> "false", q |-> <<>>]
    ELSE LET s == Unwrap(session)
         IN  OwnOrForeign(s, "EditForeignComment", "EditComment",
                          IsSome(comment.author) /\ Unwrap(comment.author) = s.user)

\* A plausible slip: the visible flag is never read.
CommentViewableIgnoresFlag(comment, session) == CommentEditable(comment, session)

\* Comment::viewable
CommentViewable(comment, session) ==
    IF comment.visible THEN [res |-> "true", q |-> <<>>]
    ELSE CommentEditable(comment, session)

\* A plausible slip: the actor's row is resolved before the session is looked at.
ArticleEditableEager(article, session) ==
    IF session = None THEN [res |-> "false", q |-> <<"users">>]
    ELSE LET s == Unwrap(session)
         IN  OwnOrForeign(s, "EditForeignArticle", "EditArticle",
                          article.author = s.user)

\* Article::editable
ArticleEditable(article, session) ==
    IF session = None THEN [res |-> "false", q |-> <<>>]
    ELSE LET s == Unwrap(session)
         IN  OwnOrForeign(s, "EditForeignArticle", "EditArticle",
                          article.author = s.user)

\* User::editable
UserEditable(user, session) ==
    IF session = None THEN [res |-> "false", q |-> <<>>]
    ELSE LET s == Unwrap(session)
             f == SessionAllowed(s, "EditForeignUser")
         IN  IF f.res # "false" THEN f
             ELSE [res |-> Bool(s.user = user.id), q |-> f.q]

\* ------------------------------------------------------------------ comment tree
\* A Node is [comment, children, overflow]: children is the Vec<Node>; overflow marks
\* a populate whose recursion does not end (the thread's stack runs out).

\* Iterator::find over a filter: the first element the predicate accepts, as an Option.
Find(accepted) == IF accepted = <<>> THEN None ELSE Some(Head(accepted))

\* A plausible slip: the hidden rows are left out of the list.
ListFlatShown(article) ==
    LET OfArticle(c) == c.article = article /\ c.visible
    IN  SelectSeq(comments, OfArticle)

\* list_flat: the rows of one article, in the order the table yields them.
ListFlat(article) ==
    LET OfArticle(c) == c.article = article
    IN  SelectSeq(comments, OfArticle)

Reverse(s) == [i \in 1..Len(s) |-> s[Len(s) + 1 - i]]

RECURSIVE PopulateShallow(_, _, _)
RECURSIVE PopulateReversed(_, _, _)
RECURSIVE Populate(_, _, _)

\* A plausible slip: the children are attached but never populated themselves.
PopulateShallow(comment, list, fuel) ==
    LET IsChild(c) == c.parent = Some(comment.id)
        kids == SelectSeq(list, IsChild)
    IN  [comment |-> comment,
         children |-> IF kids = <<>> THEN <<>>
                      ELSE [i \in 1..Len(kids) |->
                               [comment |-> kids[i], children |-> <<>>, overflow |-> FALSE]],
         overflow |-> FALSE]

\* A plausible slip: the children are collected back to front.
PopulateReversed(comment, list, fuel) ==
    LET IsChild(c) == c.parent = Some(comment.id)
        kids == Reverse(SelectSeq(list, IsChild))
        sub == IF kids = <<>> \/ fuel = 0 THEN <<>>
               ELSE [i \in 1..Len(kids) |-> PopulateReversed(kids[i], list, fuel - 1)]
    IN  [comment |-> comment, children |-> sub,
         overflow |-> fuel = 0 \/ \E i \in DOMAIN sub : sub[i].overflow]

\* Node::new followed by Node::populate.  A walk down the tree that is longer than the
\* list meets some id twice and so never ends: fuel, the list's length plus one at the
\* root, runs out on exactly those walks.
Populate(comment, list, fuel) ==
    LET IsChild(c) == c.parent = Some(comment.id)
        kids == SelectSeq(list, IsChild)
        sub == IF kids = <<>> \/ fuel = 0 THEN <<>>
               ELSE [i \in 1..Len(kids) |-> Populate(kids[i], list, fuel - 1)]
    IN  [comment |-> comment, children |-> sub,
         overflow |-> fuel = 0 \/ \E i \in DOMAIN sub : sub[i].overflow]

\* A plausible slip: a comment whose parent is not in the list is taken for a root.
ListAdoptsOrphans(article) ==
    LET list == ListFlat(article)
        IsRoot(c) == \/ c.parent = None
                     \/ \A d \in Range(list) : c.parent # Some(d.id)
        roots == SelectSeq(list, IsRoot)
    IN  IF roots = <<>> THEN <<>>
        ELSE [i \in 1..Len(roots) |-> Populate(roots[i], list, Len(list) + 1)]

\* comment::list
List(article) ==
    LET list == ListFlat(article)
        IsRoot(c) == c.parent = None
        roots == SelectSeq(list, IsRoot)
    IN  IF roots = <<>> THEN <<>>
        ELSE [i \in 1..Len(roots) |-> Populate(roots[i], list, Len(list) + 1)]

\* One turn of view's loop: the comment is replaced by the first row of the list whose
\* id is the comment's parent; with no comment, or a comment without parent, by None.
Ascend(comment, list) ==
    LET wanted == IF comment = None THEN None ELSE Unwrap(comment).parent
        IsParent(parent) == wanted = Some(parent.id)
    IN  Find(SelectSeq(list, IsParent))

RECURSIVE AscendTimes(_, _, _)
AscendTimes(comment, list, n) ==
    IF n = 0 THEN comment ELSE AscendTimes(Ascend(comment, list), list, n - 1)

\* comment::view: [status, body], body the Option<Node>.
View(id, context) ==
    LET HasId(c) == c.id = id
        row == Find(SelectSeq(comments, HasId))
    IN  IF row = None THEN [status |-> "err", body |-> None]
        ELSE LET list == ListFlat(Unwrap(row).article)
                 comment == AscendTimes(Find(SelectSeq(list, HasId)), list, context)
             IN  IF comment = None THEN [status |-> "ok", body |-> None]
                 ELSE LET node == Populate(Unwrap(comment), list, Len(list) + 1)
                      IN  IF node.overflow
                          THEN [status |-> "overflow", body |-> None]
                          ELSE [status |-> "ok", body |-> Some(node)]

\* ------------------------------------------------------------------ comment requests

\* comment::submit: the store numbers and dates the row and appends it.
CommentSubmit(new) ==
    [id |-> nextId, parent |-> new.parent, article |-> new.article,
     author |-> new.author, name |-> new.name, content |-> new.content,
     date |-> nextId, visible |-> new.visible]

\* A plausible slip: the author of the post is not compared with the session.
SubmitReqUnattributed(session, post) ==
    /\ nextId <= MaxComments
    /\ IF session = None /\ ~guest_comments
       THEN /\ resp' = [op |-> "submit", status |-> "denied", body |-> None]
            /\ UNCHANGED <<comments, nextId>>
       ELSE LET new == IF post.author # None THEN [post EXCEPT !.visible = TRUE] ELSE post
            IN  /\ comments' = Append(comments, CommentSubmit(new))
                /\ nextId' = nextId + 1
                /\ resp' = [op |-> "submit", status |-> "ok",
                            body |-> Some(CommentSubmit(new))]
    /\ UNCHANGED <<users, groups, guest_comments, sessions, nextSession, now,
                   articles, nextArticle, requests, lock>>

\* handler::comments::submit
SubmitReq(session, post) ==
    /\ nextId <= MaxComments
    /\ IF session = None /\ ~guest_comments
       THEN /\ resp' = [op |-> "submit", status |-> "denied", body |-> None]
            /\ UNCHANGED <<comments, nextId>>
       ELSE LET new == IF post.author # None THEN [post EXCEPT !.visible = TRUE] ELSE post
                actor == IF session = None THEN None ELSE Some(Unwrap(session).user)
            IN  IF new.author # actor
                THEN /\ resp' = [op |-> "submit", status |-> "denied", body |-> None]
                     /\ UNCHANGED <<comments, nextId>>
                ELSE /\ comments' = Append(comments, CommentSubmit(new))
                     /\ nextId' = nextId + 1
                     /\ resp' = [op |-> "submit", status |-> "ok",
                                 body |-> Some(CommentSubmit(new))]
    /\ UNCHANGED <<users, groups, guest_comments, sessions, nextSession, now,
                   articles, nextArticle, requests, lock>>

\* handler::comments::list
ListReq(article) ==
    /\ resp' = [op |-> "list", article |-> article, status |-> "ok",
                body |-> List(article)]
    /\ UNCHANGED <<comments, nextId, users, groups, guest_comments, sessions, nextSession, now,
                   articles, nextArticle, requests, lock>>

\* handler::comments::view
ViewReq(id, context) ==
    /\ resp' = [op |-> "view", id |-> id, context |-> context,
                status |-> View(id, context).status, body |-> View(id, context).body]
    /\ UNCHANGED <<comments, nextId, users, groups, guest_comments, sessions, nextSession, now,
                   articles, nextArticle, requests, lock>>

\* The requests of SpecTree: alice's posts, sent with her session or with none, to
\* either article, in answer to any comment id the store can hold.
TreeSessions == { None, Some(Session("alice")) }

TreePosts ==
    { [parent |-> p, article |-> a, author |-> Some("alice"), name |-> None,
       content |-> "text", visible |-> FALSE]
      : p \in { None } \cup { Some(i) : i \in 1..MaxComments },
        a \in ArticleIds }

InitTree ==
    /\ comments = <<>>
    /\ nextId = 1
    /\ users = [u \in { "alice" } |-> [id |-> u, group |-> "default"]]
    /\ groups = [g \in { "default" } |-> <<"CreateComment">>]
    /\ guest_comments = TRUE
    /\ sessions = {}
    /\ nextSession = 1
    /\ now = 0
    /\ resp = [op |-> "none"]
    /\ articles = <<>>
    /\ nextArticle = 1
    /\ requests = [r \in Slots |-> Idle]
    /\ lock = 0

Submit == \E s \in TreeSessions, post \in TreePosts : SubmitReq(s, post)

ListTree == \E a \in ArticleIds : ListReq(a)

ViewTree == \E id \in 1..(MaxComments + 1), k \in 0..MaxContext : ViewReq(id, k)

NextTree == Submit \/ ListTree \/ ViewTree

SpecTree == InitTree /\ [][NextTree]_vars

\* ------------------------------------------------------------------ permission calls
\* The specification SpecPerm draws the users and groups tables and applies the
\* predicates of the authorization gate to drawn entities and sessions.

PermVecs == SeqsUpTo(PermSample, MaxPerms)

UserTables ==
    UNION { { [u \in S |-> [id |-> u, group |-> g[u]]] : g \in [S -> GroupIds] }
            : S \in SUBSET UserIds }

GroupTables == UNION { [S -> PermVecs] : S \in SUBSET GroupIds }

\* The comments the predicates are applied to: by a guest, by alice, by bob; shown or hidden.
CommentSample ==
    { [id |-> 1, parent |-> None, article |-> 1, author |-> a,
       name |-> IF a = None THEN Some("guest") ELSE None,
       content |-> "text", date |-> 1, visible |-> v]
      : a \in { None } \cup { Some(u) : u \in UserIds }, v \in BOOLEAN }

ArticleSample == { [id |-> 1, author |-> u, visible |-> TRUE] : u \in UserIds }

NoResp == [op |-> "none"]

Answer(op, session, entity, permission, r) ==
    [op |-> op, session |-> session, entity |-> entity, permission |-> permission,
     res |-> r.res, q |-> r.q]

InitPerm ==
    /\ comments = <<>>
    /\ nextId = 1
    /\ users \in UserTables
    /\ groups \in GroupTables
    /\ guest_comments = TRUE
    /\ sessions = {}
    /\ nextSession = 1
    /\ now = 0
    /\ resp = NoResp
    /\ articles = <<>>
    /\ nextArticle = 1
    /\ requests = [r \in Slots |-> Idle]
    /\ lock = 0

CallUserAllowed ==
    \E u \in DOMAIN users, p \in Permission :
        /\ resp' = Answer("User::allowed", None, users[u], p, UserAllowed(users[u], p))
        /\ UNCHANGED <<comments, nextId, users, groups, guest_comments, sessions, nextSession, now,
                   articles, nextArticle, requests, lock>>

CallSessionAllowed ==
    \E u \in UserIds, p \in Permission :
        /\ resp' = Answer("Session::allowed", Some(Session(u)), None, p,
                          SessionAllowed(Session(u), p))
        /\ UNCHANGED <<comments, nextId, users, groups, guest_comments, sessions, nextSession, now,
                   articles, nextArticle, requests, lock>>

CallCommentEditable ==
    \E c \in CommentSample, s \in SessionOpts :
        /\ resp' = Answer("Comment::editable", s, c, "", CommentEditable(c, s))
        /\ UNCHANGED <<comments, nextId, users, groups, guest_comments, sessions, nextSession, now,
                   articles, nextArticle, requests, lock>>

CallCommentViewable ==
    \E c \in CommentSample, s \in SessionOpts :
        /\ resp' = Answer("Comment::viewable", s, c, "", CommentViewable(c, s))
        /\ UNCHANGED <<comments, nextId, users, groups, guest_comments, sessions, nextSession, now,
                   articles, nextArticle, requests, lock>>

CallArticleEditable ==
    \E a \in ArticleSample, s \in SessionOpts :
        /\ resp' = Answer("Article::editable", s, a, "", ArticleEditable(a, s))
        /\ UNCHANGED <<comments, nextId, users, groups, guest_comments, sessions, nextSession, now,
                   articles, nextArticle, requests, lock>>

CallUserEditable ==
    \E u \in DOMAIN users, s \in SessionOpts :
        /\ resp' = Answer("User::editable", s, users[u], "", UserEditable(users[u], s))
        /\ UNCHANGED <<comments, nextId, users, groups, guest_comments, sessions, nextSession, now,
                   articles, nextArticle, requests, lock>>

NextPerm ==
    \/ CallUserAllowed
    \/ CallSessionAllowed
    \/ CallCommentEditable
    \/ CallCommentViewable
    \/ CallArticleEditable
    \/ CallUserEditable

SpecPerm == InitPerm /\ [][NextPerm]_vars

\* ------------------------------------------------------------------ comment moderation
\* Every request below answers [op, id, session, status, before]: before is the
\* comments table the request found, status is "ok", "denied" (Permission denied),
\* "err" (a store lookup of the guard failed) or "children" (purge refused).
\* The requests of SpecSubmit: posts that name no author, alice or bob, as visible or
\* not, sent with no session, alice's or bob's, to a site that takes guest comments
\* and to one that does not.
SubmitSessions == { None, Some(Session("alice")), Some(Session("bob")) }

SubmitPosts ==
    { [parent |-> None, article |-> 1, author |-> a,
       name |-> IF a = None THEN Some("guest") ELSE None,
       content |-> "text", visible |-> v]
      : a \in { None, Some("alice"), Some("bob") }, v \in BOOLEAN }

InitSubmit ==
    /\ comments = <<>>
    /\ nextId = 1
    /\ users = [u \in UserIds |-> [id |-> u, group |-> "default"]]
    /\ groups = [g \in { "default" } |-> <<"CreateComment">>]
    /\ guest_comments \in BOOLEAN
    /\ sessions = {}
    /\ nextSession = 1
    /\ now = 0
    /\ resp = [op |-> "none"]
    /\ articles = <<>>
    /\ nextArticle = 1
    /\ requests = [r \in Slots |-> Idle]
    /\ lock = 0

SubmitAny == \E s \in SubmitSessions, post \in SubmitPosts : SubmitReq(s, post)

ListAny == ListReq(1)

NextSubmit == SubmitAny \/ ListAny

SpecSubmit == InitSubmit /\ [][NextSubmit]_vars

\* An UPDATE rewrites its row where it is: the order in which the table yields its
\* rows is taken to be the order of insertion throughout.

\* comment::author(connection, id): the author column of the row, Err without one.
CommentAuthor(id) ==
    LET HasId(c) == c.id = id
        row == Find(SelectSeq(comments, HasId))
    IN  IF row = None THEN [res |-> "err", author |-> None]
        ELSE [res |-> "ok", author |-> Unwrap(row).author]

\* Comment::author(&self, connection): the name to display.  The name if there is
\* one, else the name of the user author.unwrap(), which panics on None.
DisplayAuthor(comment) ==
    IF comment.name # None THEN [res |-> "ok", name |-> Unwrap(comment.name)]
    ELSE IF comment.author = None THEN [res |-> "panic", name |-> ""]
    ELSE IF UserGet(Unwrap(comment.author)).res = "err" THEN [res |-> "err", name |-> ""]
    ELSE [res |-> "ok", name |-> Unwrap(comment.author)]

\* The match guard of the edit, delete and restore handlers:
\* Some(session) if allowed(foreign)? || allowed(own)? && author(id)? == Some(user).
Guard(session, foreign, own, id) ==
    IF session = None THEN "denied"
    ELSE LET s == Unwrap(session)
             f == SessionAllowed(s, foreign)
             o == SessionAllowed(s, own)
             a == CommentAuthor(id)
         IN  IF f.res = "err" THEN "err"
             ELSE IF f.res = "true" THEN "ok"
             ELSE IF o.res = "err" THEN "err"
             ELSE IF o.res = "false" THEN "denied"
             ELSE IF a.res = "err" THEN "err"
             ELSE IF a.author = Some(s.user) THEN "ok"
             ELSE "denied"

Moderated(op, id, session, status) ==
    [op |-> op, id |-> id, session |-> session, status |-> status, before |-> comments]

\* A plausible slip: the UPDATE is not narrowed to the row, update(comments) in
\* place of update(comments.find(id)).
CommentEditEveryRow(id, changes) ==
    [i \in DOMAIN comments |->
        [comments[i] EXCEPT !.name = IF changes.name = None THEN @ ELSE changes.name,
                            !.content = changes.content,
                            !.visible = changes.visible]]

\* comment::edit: CommentChanges is a changeset, in which a name of None leaves the
\* column as it is.
CommentEdit(id, changes) ==
    [i \in DOMAIN comments |->
        IF comments[i].id = id
        THEN [comments[i] EXCEPT !.name = IF changes.name = None THEN @ ELSE changes.name,
                                 !.content = changes.content,
                                 !.visible = changes.visible]
        ELSE comments[i]]

\* handler::comments::edit
EditReq(session, id, changes) ==
    LET g == Guard(session, "EditForeignComment", "EditComment", id)
    IN  /\ comments' = IF g = "ok" THEN CommentEdit(id, changes) ELSE comments
        /\ resp' = Moderated("edit", id, session, g)
        /\ UNCHANGED <<nextId, users, groups, guest_comments, sessions, nextSession, now,
                   articles, nextArticle, requests, lock>>

\* A plausible slip: the replies to the comment are hidden with it.
CommentDeleteWithReplies(id) ==
    [i \in DOMAIN comments |->
        IF comments[i].id = id \/ comments[i].parent = Some(id)
        THEN [comments[i] EXCEPT !.visible = FALSE]
        ELSE comments[i]]

\* comment::delete
CommentDelete(id) ==
    [i \in DOMAIN comments |->
        IF comments[i].id = id THEN [comments[i] EXCEPT !.visible = FALSE] ELSE comments[i]]

\* handler::comments::delete
DeleteReq(session, id) ==
    LET g == Guard(session, "DeleteForeignComment", "DeleteComment", id)
    IN  /\ comments' = IF g = "ok" THEN CommentDelete(id) ELSE comments
        /\ resp' = Moderated("delete", id, session, g)
        /\ UNCHANGED <<nextId, users, groups, guest_comments, sessions, nextSession, now,
                   articles, nextArticle, requests, lock>>

\* comment::restore: the restore handler calls it and comment.rs does not define
\* it.  It is taken as the counterpart of comment::delete: visible is set to true
\* on the row.
CommentRestore(id) ==
    [i \in DOMAIN comments |->
        IF comments[i].id = id THEN [comments[i] EXCEPT !.visible = TRUE] ELSE comments[i]]

\* A plausible slip: restore is guarded by the permissions of edit.
RestoreReqAsEditor(session, id) ==
    LET g == Guard(session, "EditForeignComment", "EditComment", id)
    IN  /\ comments' = IF g = "ok" THEN CommentRestore(id) ELSE comments
        /\ resp' = Moderated("restore", id, session, g)
        /\ UNCHANGED <<nextId, users, groups, guest_comments, sessions, nextSession, now,
                   articles, nextArticle, requests, lock>>

\* handler::comments::restore
RestoreReq(session, id) ==
    LET g == Guard(session, "DeleteForeignComment", "DeleteComment", id)
    IN  /\ comments' = IF g = "ok" THEN CommentRestore(id) ELSE comments
        /\ resp' = Moderated("restore", id, session, g)
        /\ UNCHANGED <<nextId, users, groups, guest_comments, sessions, nextSession, now,
                   articles, nextArticle, requests, lock>>

\* A plausible slip: the row is deleted without counting its children.
CommentPurgeUnchecked(id) ==
    LET Others(c) == c.id # id
    IN  [status |-> "ok", rows |-> SelectSeq(comments, Others)]

\* comment::purge: [status, rows], rows the table afterwards.
CommentPurge(id) ==
    LET IsChild(c) == c.parent = Some(id)
        Others(c) == c.id # id
        children_count == Len(SelectSeq(comments, IsChild))
    IN  IF children_count = 0
        THEN [status |-> "ok", rows |-> SelectSeq(comments, Others)]
        ELSE [status |-> "children", rows |-> comments]

\* handler::comments::purge
PurgeReq(session, id) ==
    LET a == IF session = None THEN [res |-> "false"]
             ELSE SessionAllowed(Unwrap(session), "DeleteForeignComment")
        g == IF a.res = "true" THEN "ok" ELSE IF a.res = "err" THEN "err" ELSE "denied"
    IN  /\ comments' = IF g = "ok" THEN CommentPurge(id).rows ELSE comments
        /\ resp' = Moderated("purge", id, session,
                             IF g = "ok" THEN CommentPurge(id).status ELSE g)
        /\ UNCHANGED <<nextId, users, groups, guest_comments, sessions, nextSession, now,
                   articles, nextArticle, requests, lock>>

\* ------------------------------------------------------------------ articles

\* article.rs, ILLEGAL_URL_CHARS: of the urls drawn, the one holding such a character.
IllegalUrl(url) == url = "a?b"

\* article::id_from_url: the id of the first row with the url, Err without one.
IdFromUrl(url) ==
    LET HasUrl(a) == a.url = url
        row == Find(SelectSeq(articles, HasUrl))
    IN  IF row = None THEN [res |-> "err", id |-> 0] ELSE [res |-> "ok", id |-> Unwrap(row).id]

\* ArticlePath::find_id: a path that parses as a number is the id, any other is
\* looked up as a url.
FindId(path) ==
    IF path.kind = "id" THEN [res |-> "ok", id |-> path.id] ELSE IdFromUrl(path.url)

\* article::author(connection, id): the author column of the row, Err without one.
ArticleAuthor(id) ==
    LET HasId(a) == a.id = id
        row == Find(SelectSeq(articles, HasId))
    IN  IF row = None THEN [res |-> "err", author |-> ""]
        ELSE [res |-> "ok", author |-> Unwrap(row).author]

\* A plausible slip: the own permission is taken without comparing the author.
ArticleGuardAnyOwner(session, foreign, own, id) ==
    IF session = None THEN "denied"
    ELSE LET s == Unwrap(session)
             f == SessionAllowed(s, foreign)
             o == SessionAllowed(s, own)
         IN  IF f.res = "err" THEN "err"
             ELSE IF f.res = "true" THEN "ok"
             ELSE IF o.res = "err" THEN "err"
             ELSE IF o.res = "false" THEN "denied"
             ELSE "ok"

\* The match guard of the article edit and delete handlers:
\* Some(session) if allowed(foreign)? || allowed(own)? && author(id)? == user.
ArticleGuard(session, foreign, own, id) ==
    IF session = None THEN "denied"
    ELSE LET s == Unwrap(session)
             f == SessionAllowed(s, foreign)
             o == SessionAllowed(s, own)
             a == ArticleAuthor(id)
         IN  IF f.res = "err" THEN "err"
             ELSE IF f.res = "true" THEN "ok"
             ELSE IF o.res = "err" THEN "err"
             ELSE IF o.res = "false" THEN "denied"
             ELSE IF a.res = "err" THEN "err"
             ELSE IF a.author = s.user THEN "ok"
             ELSE "denied"

Published(op, path, session, status) ==
    [op |-> op, path |-> path, session |-> session, status |-> status, before |-> articles]

\* article::submit: the store numbers and dates the row and appends it.
ArticleSubmit(new) ==
    [id |-> nextArticle, title |-> new.title, author |-> new.author, url |-> new.url,
     content |-> new.content, date |-> nextArticle, visible |-> new.visible]

\* handler::articles::submit, and document::index::edit_post without a path
ArticleSubmitReq(session, new) ==
    LET a == IF session = None THEN [res |-> "false"]
             ELSE SessionAllowed(Unwrap(session), "CreateArticle")
        g == IF a.res = "true" THEN IF IllegalUrl(new.url) THEN "err" ELSE "ok"
             ELSE IF a.res = "err" THEN "err" ELSE "denied"
    IN  /\ nextArticle <= MaxArticles
        /\ articles' = IF g = "ok" THEN Append(articles, ArticleSubmit(new)) ELSE articles
        /\ nextArticle' = IF g = "ok" THEN nextArticle + 1 ELSE nextArticle
        /\ resp' = Published("article_submit", [kind |-> "none"], session, g)
        /\ UNCHANGED <<comments, nextId, users, groups, guest_comments, sessions, nextSession,
                       now, requests, lock>>

\* article::edit: ArticleChanges is a changeset over title, url, content and visible.
ArticleEdit(id, changes) ==
    [i \in DOMAIN articles |->
        IF articles[i].id = id
        THEN [articles[i] EXCEPT !.title = changes.title, !.url = changes.url,
                                 !.content = changes.content, !.visible = changes.visible]
        ELSE articles[i]]

\* handler::articles::edit: the id is found before the session is looked at.
ArticleEditReq(session, path, changes) ==
    LET f == FindId(path)
        g == IF f.res = "err" THEN "err"
             ELSE ArticleGuard(session, "EditForeignArticle", "EditArticle", f.id)
    IN  /\ articles' = IF g = "ok" THEN ArticleEdit(f.id, changes) ELSE articles
        /\ resp' = Published("article_edit", path, session, g)
        /\ UNCHANGED <<comments, nextId, users, groups, guest_comments, sessions, nextSession,
                       now, nextArticle, requests, lock>>

\* article::delete
ArticleDelete(id) ==
    LET Others(a) == a.id # id
    IN  SelectSeq(articles, Others)

\* handler::articles::delete
ArticleDeleteReq(session, path) ==
    LET f == FindId(path)
        g == IF f.res = "err" THEN "err"
             ELSE ArticleGuard(session, "DeleteForeignArticle", "DeleteArticle", f.id)
    IN  /\ articles' = IF g = "ok" THEN ArticleDelete(f.id) ELSE articles
        /\ resp' = Published("article_delete", path, session, g)
        /\ UNCHANGED <<comments, nextId, users, groups, guest_comments, sessions, nextSession,
                       now, nextArticle, requests, lock>>

\* ------------------------------------------------------------------ accounts

\* The hash() and verify() of user.rs, bcrypt: a hash is made from the password and
\* verifies that password only.
Hash(password) == <<"bcrypt", password>>
Verify(password, hash) == hash = Hash(password)

\* The statements of user::delete, in order; Faults adds "none" to them.
DeleteStatements == <<"select", "update", "sessions", "user">>
Faults == { "none" } \cup Range(DeleteStatements)

\* The bulk update of user::delete on the comments of author id: the first branch
\* with deletion.purge, the second without.
Anonymized(id, purge) ==
    [i \in DOMAIN comments |->
        IF comments[i].author = Some(id)
        THEN IF purge
             THEN [comments[i] EXCEPT !.author = None, !.name = Some("[deleted]"),
                                      !.content = "", !.visible = FALSE]
             ELSE [comments[i] EXCEPT !.author = None, !.name = Some("[deleted]"),
                                      !.visible = FALSE]
        ELSE comments[i]]

\* user::delete: [status, comments, sessions, users], the tables as it leaves them.
\* Its statements run one after another outside any transaction; fault names the
\* statement the store fails on, and `?` returns at that statement with the earlier
\* ones applied.
UserDelete(id, deletion, fault) ==
    LET kept == [status |-> "err", comments |-> comments, sessions |-> sessions,
                 users |-> users]
        OfUser(s) == s.user = id
        rows == Anonymized(id, deletion.purge)
        left == { s \in sessions : ~OfUser(s) }
    IN  IF fault = "select" \/ id \notin DOMAIN users THEN kept
        ELSE IF ~Verify(deletion.password, users[id].hash)
        THEN [kept EXCEPT !.status = "wrong password"]
        ELSE IF fault = "update" THEN kept
        ELSE IF fault = "sessions" THEN [kept EXCEPT !.comments = rows]
        ELSE IF fault = "user" THEN [kept EXCEPT !.comments = rows, !.sessions = left]
        ELSE [status |-> "ok", comments |-> rows, sessions |-> left,
              users |-> [u \in DOMAIN users \ { id } |-> users[u]]]

\* document::index::user_delete_post: the user of the path, the form, no guard.
UserDeleteReq(user_id, deletion, fault) ==
    LET d == UserDelete(user_id, deletion, fault)
    IN  /\ comments' = d.comments
        /\ sessions' = d.sessions
        /\ users' = d.users
        /\ resp' = [op |-> "user_delete", id |-> user_id, purge |-> deletion.purge,
                    fault |-> fault, status |-> d.status, before |-> comments,
                    users_before |-> DOMAIN users, sessions_before |-> sessions]
        /\ UNCHANGED <<nextId, groups, guest_comments, nextSession, now,
                   articles, nextArticle, requests, lock>>

\* ------------------------------------------------------------------ the store under requests
\* The specifications SpecStore and SpecAccount send requests to a store of two
\* users, alice of the group staff and bob of the group default, each logged in:
\* SpecStore the moderation of bob's comments, SpecAccount the edits and the account
\* deletions.

StoreUsers ==
    [u \in UserIds |-> [id |-> u, group |-> IF u = "alice" THEN "staff" ELSE "default",
                        hash |-> Hash("secret")]]

\* The group rows: staff holds every permission, default the one named.
StoreGroups(own) ==
    [g \in { "staff", "default" } |-> IF g = "staff" THEN <<"All">> ELSE <<own>>]

\* The Option<&Session> the middleware hands to a handler: none, or that of a user
\* with a row in sessions.
StoreSessions == { None } \cup { Some(Session(s.user)) : s \in sessions }

StoreSessionRows ==
    { [id |-> 1, user |-> "alice", expires |-> SessionDays],
      [id |-> 2, user |-> "bob", expires |-> SessionDays] }

\* bob's posts, to one article, in answer to any comment id the store can hold.
StorePosts ==
    { [parent |-> p, article |-> 1, author |-> Some("bob"), name |-> None,
       content |-> "text", visible |-> FALSE]
      : p \in { None } \cup { Some(i) : i \in 1..MaxRows } }

InitStore ==
    /\ comments = <<>>
    /\ nextId = 1
    /\ users = StoreUsers
    /\ groups = StoreGroups("DeleteComment")
    /\ guest_comments = TRUE
    /\ sessions = StoreSessionRows
    /\ nextSession = 3
    /\ now = 0
    /\ resp = NoResp
    /\ articles = <<>>
    /\ nextArticle = 1
    /\ requests = [r \in Slots |-> Idle]
    /\ lock = 0

SubmitStore ==
    \E s \in StoreSessions, post \in StorePosts :
        nextId <= MaxRows /\ SubmitReq(s, post)

DeleteStore == \E s \in StoreSessions, id \in 1..MaxRows : DeleteReq(s, id)

RestoreStore == \E s \in StoreSessions, id \in 1..MaxRows : RestoreReq(s, id)

PurgeStore == \E s \in StoreSessions, id \in 1..MaxRows : PurgeReq(s, id)

NextStore ==
    \/ SubmitStore
    \/ DeleteStore
    \/ RestoreStore
    \/ PurgeStore

SpecStore == InitStore /\ [][NextStore]_vars

\* The specification SpecHide: bob posts, hides and restores his comments, and the
\* article's comments are listed and viewed.
SubmitHide ==
    \E post \in StorePosts :
        nextId <= MaxRows /\ SubmitReq(Some(Session("bob")), post)

DeleteHide == \E id \in 1..MaxRows : DeleteReq(Some(Session("bob")), id)

RestoreHide == \E id \in 1..MaxRows : RestoreReq(Some(Session("bob")), id)

ListHide == ListReq(1)

ViewHide == \E id \in 1..MaxRows, k \in 0..MaxContext : ViewReq(id, k)

NextHide ==
    \/ SubmitHide
    \/ DeleteHide
    \/ RestoreHide
    \/ ListHide
    \/ ViewHide

SpecHide == InitStore /\ [][NextHide]_vars

\* The posts of SpecAccount, all to one article and unanswered: bob's, and a guest's
\* with and without a name.
AccountPosts ==
    { [parent |-> None, article |-> 1, author |-> w, name |-> n,
       content |-> "text", visible |-> FALSE]
      : w \in { None, Some("bob") }, n \in { None, Some("guest") } }

AccountChanges ==
    [name : { None, Some("guest") }, content : { "edited" }, visible : BOOLEAN]

Deletions == [password : { "secret", "wrong" }, purge : BOOLEAN]

InitAccount ==
    /\ comments = <<>>
    /\ nextId = 1
    /\ users = StoreUsers
    /\ groups = StoreGroups("EditComment")
    /\ guest_comments = TRUE
    /\ sessions = StoreSessionRows
    /\ nextSession = 3
    /\ now = 0
    /\ resp = NoResp
    /\ articles = <<>>
    /\ nextArticle = 1
    /\ requests = [r \in Slots |-> Idle]
    /\ lock = 0

SubmitAccount ==
    \E s \in StoreSessions, post \in AccountPosts :
        /\ nextId <= MaxRows
        /\ post.author # None => post.name = None
        /\ SubmitReq(s, post)

EditAccount ==
    \E s \in StoreSessions, id \in 1..MaxRows, changes \in AccountChanges :
        EditReq(s, id, changes)

\* The account deleted is bob's, the author of the comments.
UserDeleteAccount ==
    \E deletion \in Deletions, fault \in Faults :
        /\ deletion.password = "wrong" => fault = "none"
        /\ UserDeleteReq("bob", deletion, fault)

NextAccount ==
    \/ SubmitAccount
    \/ EditAccount
    \/ UserDeleteAccount

SpecAccount == InitAccount /\ [][NextAccount]_vars

\* SpecGate: a store that holds a comment of bob's, alice's reply to it and an
\* article of bob's, and every comment and article mutation endpoint, called with
\* no session, bob's or alice's.  The staff group of alice holds the permissions on
\* foreign entities, bob's default group those on his own.
GateGroups ==
    [g \in { "staff", "default" } |->
        IF g = "staff"
        THEN <<"EditForeignComment", "DeleteForeignComment",
               "EditForeignArticle", "DeleteForeignArticle">>
        ELSE <<"EditComment", "DeleteComment", "EditArticle", "DeleteArticle",
               "CreateArticle">>]

GateComments ==
    <<[id |-> 1, parent |-> None, article |-> 1, author |-> Some("bob"), name |-> None,
       content |-> "text", date |-> 1, visible |-> TRUE],
      [id |-> 2, parent |-> Some(1), article |-> 1, author |-> Some("alice"), name |-> None,
       content |-> "text", date |-> 2, visible |-> TRUE]>>

GateArticles ==
    <<[id |-> 1, title |-> "title", author |-> "bob", url |-> "page", content |-> "text",
       date |-> 1, visible |-> TRUE]>>

\* The edit sent: one that withdraws the comment and keeps its text.
GateChanges == [name |-> None, content |-> "text", visible |-> FALSE]

NewArticles ==
    [title : { "title" }, url : { "page", "a?b" }, content : { "text" },
     author : { "alice" }, visible : { TRUE }]

ArticleChangesSample == [title : { "edited" }, url : { "page" }, content : { "text" },
                         visible : { FALSE }]

\* The paths of the article routes: a number, or the url of an article.
ArticlePaths ==
    { [kind |-> "id", id |-> i, url |-> ""] : i \in 1..MaxArticles }
    \cup { [kind |-> "url", id |-> 0, url |-> "page"] }

InitGate ==
    /\ comments = GateComments
    /\ nextId = 3
    /\ users = StoreUsers
    /\ groups = GateGroups
    /\ guest_comments = TRUE
    /\ sessions = StoreSessionRows
    /\ nextSession = 3
    /\ now = 0
    /\ resp = NoResp
    /\ articles = GateArticles
    /\ nextArticle = 2
    /\ requests = [r \in Slots |-> Idle]
    /\ lock = 0

EditGate == \E s \in StoreSessions, id \in 1..2 : EditReq(s, id, GateChanges)

DeleteGate == \E s \in StoreSessions, id \in 1..2 : DeleteReq(s, id)

RestoreGate == \E s \in StoreSessions, id \in 1..2 : RestoreReq(s, id)

PurgeGate == \E s \in StoreSessions, id \in 1..2 : PurgeReq(s, id)

ArticleSubmitGate == \E s \in StoreSessions, new \in NewArticles : ArticleSubmitReq(s, new)

ArticleEditGate ==
    \E s \in StoreSessions, path \in ArticlePaths, changes \in ArticleChangesSample :
        ArticleEditReq(s, path, changes)

ArticleDeleteGate == \E s \in StoreSessions, path \in ArticlePaths : ArticleDeleteReq(s, path)

NextGate ==
    \/ EditGate
    \/ DeleteGate
    \/ RestoreGate
    \/ PurgeGate
    \/ ArticleSubmitGate
    \/ ArticleEditGate
    \/ ArticleDeleteGate

SpecGate == InitGate /\ [][NextGate]_vars

\* SpecEdit: bob's comments under two articles and his replies to the first of
\* them, edited by bob and by a request without a session.
EditPosts ==
    { [parent |-> p, article |-> a, author |-> Some("bob"), name |-> None,
       content |-> "text", visible |-> FALSE]
      : p \in { None, Some(1) }, a \in ArticleIds }

EditSessions == { None, Some(Session("bob")) }

SubmitEdit ==
    \E post \in EditPosts :
        /\ nextId <= MaxRows
        /\ post.parent # None => post.article = 1
        /\ SubmitReq(Some(Session("bob")), post)

EditEdit ==
    \E s \in EditSessions, id \in 1..MaxRows, changes \in AccountChanges :
        EditReq(s, id, changes)

NextEdit ==
    \/ SubmitEdit
    \/ EditEdit

SpecEdit == InitAccount /\ [][NextEdit]_vars

\* ------------------------------------------------------------------ profiles

\* user::edit_profile: UserProfile is a changeset over name and email, written to
\* the row with the id; no row, nothing written.
EditProfile(id, profile) ==
    [u \in DOMAIN users |->
        IF u = id THEN [users[u] EXCEPT !.name = profile.name, !.email = profile.email]
        ELSE users[u]]

\* document::index::user_profile_post (and document::user::profile_post): the
\* session is not read.
ProfileReq(session, user_id, profile) ==
    /\ users' = EditProfile(user_id, profile)
    /\ resp' = [op |-> "profile", session |-> session, id |-> user_id, status |-> "ok",
                before |-> users]
    /\ UNCHANGED <<comments, nextId, groups, guest_comments, sessions, nextSession, now,
                   articles, nextArticle, requests, lock>>

\* SpecProfile: the profiles of alice (staff) and bob, posted to with no session,
\* alice's or bob's, for either of them or for a user without a row.
ProfileUsers ==
    [u \in UserIds |-> [id |-> u, group |-> IF u = "alice" THEN "staff" ELSE "default",
                        hash |-> Hash("secret"), name |-> u, email |-> "old"]]

Profiles == [name : { "mallory", "bob" }, email : { "new" }]

InitProfile ==
    /\ comments = <<>>
    /\ nextId = 1
    /\ users = ProfileUsers
    /\ groups = StoreGroups("EditComment")
    /\ guest_comments = TRUE
    /\ sessions = StoreSessionRows
    /\ nextSession = 3
    /\ now = 0
    /\ resp = NoResp
    /\ articles = <<>>
    /\ nextArticle = 1
    /\ requests = [r \in Slots |-> Idle]
    /\ lock = 0

ProfilePost ==
    \E s \in StoreSessions, id \in UserIds \cup { "carol" }, profile \in Profiles :
        ProfileReq(s, id, profile)

NextProfile == ProfilePost

SpecProfile == InitProfile /\ [][NextProfile]_vars

\* ------------------------------------------------------------------ sessions
\* A session id is 24 random bytes: the ids are numbered in the order they are
\* drawn, and no id is drawn twice.  Time is counted in days.

\* Session::new
SessionNew(user) == [id |-> nextSession, user |-> user, expires |-> now + SessionDays]

\* Session::from_id
SessionFromId(id) ==
    LET HasId(s) == s.id = id
    IN  IF \E s \in sessions : HasId(s) THEN Some(CHOOSE s \in sessions : HasId(s)) ELSE None

\* Login::login on a user whose hash needs no rehash: [session, sessions].
Login(credentials) ==
    IF /\ credentials.user \in DOMAIN users
       /\ Verify(credentials.password, users[credentials.user].hash)
    THEN [session |-> Some(SessionNew(credentials.user)),
          sessions |-> sessions \cup { SessionNew(credentials.user) }]
    ELSE [session |-> None, sessions |-> sessions]

\* A plausible slip: the expiry is not looked at.
SessionMiddlewareNoExpiry(cookie) ==
    LET session == IF cookie = None THEN None ELSE SessionFromId(Unwrap(cookie))
    IN  [attached |-> session, sessions |-> sessions]

\* SessionMiddleware::call, put_session: [attached, sessions], the session put into
\* the request's state and the table afterwards.
SessionMiddleware(cookie) ==
    LET session == IF cookie = None THEN None ELSE SessionFromId(Unwrap(cookie))
    IN  IF session = None THEN [attached |-> None, sessions |-> sessions]
        ELSE IF Unwrap(session).expires < now
        THEN [attached |-> None, sessions |-> sessions \ { Unwrap(session) }]
        ELSE [attached |-> session, sessions |-> sessions]

\* user::logout
Logout(table, session) == { s \in table : s.id # session }

Served(op, cookie, attached) ==
    [op |-> op, cookie |-> cookie, attached |-> attached, before |-> sessions, at |-> now]

\* document::index::login_post
LoginReq(credentials) ==
    /\ nextSession <= MaxSessions
    /\ sessions' = Login(credentials).sessions
    /\ nextSession' = IF Login(credentials).session = None THEN nextSession
                      ELSE nextSession + 1
    /\ resp' = [op |-> "login", user |-> credentials.user,
                body |-> Login(credentials).session, before |-> sessions, at |-> now]
    /\ UNCHANGED <<comments, nextId, users, groups, guest_comments, now,
                   articles, nextArticle, requests, lock>>

\* A request to a route that writes no session, behind the middleware.
PageReq(cookie) ==
    /\ sessions' = SessionMiddleware(cookie).sessions
    /\ resp' = Served("request", cookie, SessionMiddleware(cookie).attached)
    /\ UNCHANGED <<comments, nextId, users, groups, guest_comments, nextSession, now,
                   articles, nextArticle, requests, lock>>

\* document::index::logout, behind the middleware.
LogoutReq(cookie) ==
    LET m == SessionMiddleware(cookie)
    IN  /\ sessions' = IF m.attached = None THEN m.sessions
                       ELSE Logout(m.sessions, Unwrap(m.attached).id)
        /\ resp' = Served("logout", cookie, m.attached)
        /\ UNCHANGED <<comments, nextId, users, groups, guest_comments, nextSession, now,
                   articles, nextArticle, requests, lock>>

\* The clock moves on.
Tick(days) ==
    /\ now + days <= MaxNow
    /\ now' = now + days
    /\ UNCHANGED <<comments, nextId, users, groups, guest_comments, sessions, nextSession,
                   resp, articles, nextArticle, requests, lock>>

Credentials == [user : { "alice", "carol" }, password : { "secret", "wrong" }]

Cookies == { None } \cup { Some(i) : i \in 1..(MaxSessions + 1) }

InitSession ==
    /\ comments = <<>>
    /\ nextId = 1
    /\ users = StoreUsers
    /\ groups = StoreGroups("EditComment")
    /\ guest_comments = TRUE
    /\ sessions = {}
    /\ nextSession = 1
    /\ now = 0
    /\ resp = NoResp
    /\ articles = <<>>
    /\ nextArticle = 1
    /\ requests = [r \in Slots |-> Idle]
    /\ lock = 0

LoginSession == \E credentials \in Credentials : LoginReq(credentials)

PageSession == \E cookie \in Cookies : PageReq(cookie)

LogoutSession == \E cookie \in Cookies : LogoutReq(cookie)

\* By half the life of a session, or by a day more than that: two steps bring the
\* clock to the day a session expires on, or past it.
TickSession == \E days \in { SessionDays \div 2, SessionDays \div 2 + 1 } : Tick(days)

NextSession ==
    \/ LoginSession
    \/ PageSession
    \/ LogoutSession
    \/ TickSession

SpecSession == InitSession /\ [][NextSession]_vars

\* ------------------------------------------------------------------ requests in flight
\* gotham serves requests on several worker threads.  Every access to the store goes
\* through DbConnection::lock() on the one Mutex: a thread that wants the store waits
\* until the Mutex is free, holds it for the scope of the guard and frees it at the
\* end of that scope.  A scope is two steps here, taking the Mutex and running the
\* scope to its end.

\* user::count
UserCount == Cardinality(DOMAIN users)

\* user::create for a legal id and a password of sufficient length: the INSERT fails
\* on an id that is taken.  NewUser::into_user: the group is "default".
UserCreate(id) ==
    IF id \in DOMAIN users THEN [status |-> "err", users |-> users]
    ELSE [status |-> "ok",
          users |-> [u \in DOMAIN users \cup { id } |->
                        IF u = id THEN [id |-> id, group |-> "default", hash |-> Hash("secret")]
                        ELSE users[u]]]

\* A request arrives at an idle thread and enters the pipeline.
Arrive(i, kind, cookie, user) ==
    /\ requests[i].pc = "idle"
    /\ requests' = [requests EXCEPT ![i] =
                       [pc |-> "middleware", kind |-> kind, cookie |-> cookie, user |-> user,
                        attached |-> None, status |-> ""]]
    /\ UNCHANGED <<comments, nextId, users, groups, guest_comments, sessions, nextSession, now,
                   resp, articles, nextArticle, lock>>

\* DbConnection::lock at the head of a scope: the thread at `at` takes the Mutex.
Lock(i, at, to) ==
    /\ requests[i].pc = at
    /\ lock = 0
    /\ lock' = i
    /\ requests' = [requests EXCEPT ![i].pc = to]
    /\ UNCHANGED <<comments, nextId, users, groups, guest_comments, sessions, nextSession, now,
                   resp, articles, nextArticle>>

\* SessionMiddleware::call: put_session takes the Mutex, ...
MiddlewareLock(i) == Lock(i, "middleware", "put_session")

\* ... looks the cookie up, and frees the Mutex before the chain is called.
PutSession(i) ==
    LET m == SessionMiddleware(requests[i].cookie)
    IN  /\ requests[i].pc = "put_session"
        /\ lock = i
        /\ sessions' = m.sessions
        /\ lock' = 0
        /\ requests' = [requests EXCEPT ![i].attached = m.attached,
                                        ![i].pc = IF requests[i].kind = "setup"
                                                  THEN "init_setup_post" ELSE "list"]
        /\ UNCHANGED <<comments, nextId, users, groups, guest_comments, nextSession, now, resp,
                       articles, nextArticle>>

\* handler::articles::list takes the Mutex, ...
ListLock(i) == Lock(i, "list", "listing")

\* ... reads the articles and answers.
ListArticles(i) ==
    /\ requests[i].pc = "listing"
    /\ lock = i
    /\ lock' = 0
    /\ requests' = [requests EXCEPT ![i].pc = "done", ![i].status = "ok"]
    /\ UNCHANGED <<comments, nextId, users, groups, guest_comments, sessions, nextSession, now,
                   resp, articles, nextArticle>>

\* init_setup_post takes the Mutex in a scope of its own, ...
CountLock(i) == Lock(i, "init_setup_post", "count")

\* ... counts the users and frees the Mutex: the request ends here if there are any.
Count(i) ==
    /\ requests[i].pc = "count"
    /\ lock = i
    /\ lock' = 0
    /\ requests' = IF UserCount > 0
                   THEN [requests EXCEPT ![i].pc = "done", ![i].status = "complete"]
                   ELSE [requests EXCEPT ![i].pc = "signup_post"]
    /\ UNCHANGED <<comments, nextId, users, groups, guest_comments, sessions, nextSession, now,
                   resp, articles, nextArticle>>

\* signup_post takes the Mutex, ...
SignupLock(i) == Lock(i, "signup_post", "create")

\* ... creates the user and logs them in.
Signup(i) ==
    LET c == UserCreate(requests[i].user)
    IN  /\ requests[i].pc = "create"
        /\ lock = i
        /\ lock' = 0
        /\ users' = c.users
        /\ sessions' = IF c.status = "ok" THEN sessions \cup { SessionNew(requests[i].user) }
                       ELSE sessions
        /\ nextSession' = IF c.status = "ok" THEN nextSession + 1 ELSE nextSession
        /\ requests' = [requests EXCEPT ![i].pc = "done",
                                        ![i].status = IF c.status = "ok" THEN "created"
                                                      ELSE "err"]
        /\ UNCHANGED <<comments, nextId, groups, guest_comments, now, resp, articles,
                       nextArticle>>

\* The response is sent and the thread is free for the next request.
Respond(i) ==
    /\ requests[i].pc = "done"
    /\ requests' = [requests EXCEPT ![i] = Idle]
    /\ UNCHANGED <<comments, nextId, users, groups, guest_comments, sessions, nextSession, now,
                   resp, articles, nextArticle, lock>>

\* SpecServe: a fresh installation, without users.  The requests are initial setups
\* for alice or bob and article lists, sent with no cookie or with the cookie of
\* the first session.
ServeCookies == { None, Some(1) }

InitServe ==
    /\ comments = <<>>
    /\ nextId = 1
    /\ users = [u \in {} |-> [id |-> u, group |-> "default", hash |-> Hash("secret")]]
    /\ groups = [g \in { "default" } |-> <<"CreateComment">>]
    /\ guest_comments = TRUE
    /\ sessions = {}
    /\ nextSession = 1
    /\ now = 0
    /\ resp = NoResp
    /\ articles = <<>>
    /\ nextArticle = 1
    /\ requests = [r \in Slots |-> Idle]
    /\ lock = 0

NextServe ==
    \/ \E i \in Slots, user \in UserIds : Arrive(i, "setup", None, user)
    \/ \E i \in Slots, cookie \in ServeCookies : Arrive(i, "list", cookie, "")
    \/ \E i \in Slots : MiddlewareLock(i)
    \/ \E i \in Slots : PutSession(i)
    \/ \E i \in Slots : ListLock(i)
    \/ \E i \in Slots : ListArticles(i)
    \/ \E i \in Slots : CountLock(i)
    \/ \E i \in Slots : Count(i)
    \/ \E i \in Slots : SignupLock(i)
    \/ \E i \in Slots : Signup(i)
    \/ \E i \in Slots : Respond(i)

SpecServe == InitServe /\ [][NextServe]_vars

\* ------------------------------------------------------------------ what the claims speak of

\* The actor's user row and its group row are both in the store.
ActorResolvable(s) ==
    /\ s.user \in DOMAIN users
    /\ users[s.user].group \in DOMAIN groups

\* The permission set of the actor's group.
ActorPerms(s) == Range(groups[users[s.user].group])

\* has(group, permission) of the actor's group.
Has(s, p) == ActorResolvable(s) /\ (p \in ActorPerms(s) \/ "All" \in ActorPerms(s))

EditOps == { "Comment::editable", "Article::editable", "User::editable" }
SessionOps == EditOps \cup { "Comment::viewable", "Session::allowed" }

\* C1: Comment::editable answers true exactly when the actor's group has
\* EditForeignComment (or All), or has EditComment (or All) and the comment's author is
\* the actor; a comment without author is editable only through EditForeignComment, and
\* EditComment alone never opens another user's comment.
Thm_C1_EditableOwnOrForeign ==
    resp.op = "Comment::editable" =>
        LET c == resp.entity
            so == resp.session
        IN  /\ (resp.res = "true") <=>
                   /\ so # None
                   /\ \/ Has(Unwrap(so), "EditForeignComment")
                      \/ /\ Has(Unwrap(so), "EditComment")
                         /\ c.author = Some(Unwrap(so).user)
            /\ (resp.res = "true" /\ c.author = None)
                   => Has(Unwrap(so), "EditForeignComment")
            /\ (so # None /\ ~Has(Unwrap(so), "EditForeignComment")
                   /\ c.author # Some(Unwrap(so).user))
                   => resp.res # "true"

\* An actor holding EditComment but not EditForeignComment edits its own comment.
Wit_C1_OwnCommentEdited ==
    /\ resp.op = "Comment::editable"
    /\ resp.res = "true"
    /\ ~Has(Unwrap(resp.session), "EditForeignComment")
    /\ resp.entity.author = Some(Unwrap(resp.session).user)

\* C2: Comment::viewable answers true for a visible comment whoever asks, and for a
\* hidden comment answers what Comment::editable answers: true for a holder of
\* EditForeignComment, false for no actor and for an actor with neither edit permission.
Thm_C2_ViewableVisibleOrEditable ==
    resp.op = "Comment::viewable" =>
        LET c == resp.entity
            so == resp.session
        IN  /\ c.visible => resp.res = "true"
            /\ ~c.visible => resp.res = CommentEditable(c, so).res
            /\ (~c.visible /\ so = None) => resp.res = "false"
            /\ (~c.visible /\ so # None /\ Has(Unwrap(so), "EditForeignComment"))
                   => resp.res = "true"
            /\ (~c.visible /\ so # None /\ ActorResolvable(Unwrap(so))
                   /\ ~Has(Unwrap(so), "EditForeignComment")
                   /\ ~Has(Unwrap(so), "EditComment"))
                   => resp.res = "false"

\* A hidden comment of somebody else is shown to a holder of EditForeignComment.
Wit_C2_HiddenShownToForeignEditor ==
    /\ resp.op = "Comment::viewable"
    /\ ~resp.entity.visible
    /\ resp.session # None
    /\ resp.entity.author # Some(Unwrap(resp.session).user)
    /\ resp.res = "true"

\* C3: has(group, permission) is true exactly when the permission or All is in the
\* group's permission set; a group holding All passes every check.
Thm_C3_HasPermissionOrAll ==
    (resp.op = "User::allowed" /\ resp.entity.group \in DOMAIN groups) =>
        LET set == Range(groups[resp.entity.group])
        IN  /\ (resp.res = "true") <=> (resp.permission \in set \/ "All" \in set)
            /\ resp.res \in { "true", "false" }
            /\ "All" \in set => resp.res = "true"

\* A group that holds All but not the permission asked for passes the check.
Wit_C3_WildcardPasses ==
    /\ resp.op = "User::allowed"
    /\ resp.entity.group \in DOMAIN groups
    /\ resp.permission \notin Range(groups[resp.entity.group])
    /\ resp.res = "true"

\* C4: without an actor the editable predicates of comments, articles and users answer
\* false and query no table.
Thm_C4_AnonymousDeniedWithoutLookup ==
    (resp.op \in EditOps /\ resp.session = None) =>
        /\ resp.res = "false"
        /\ resp.q = <<>>

\* An anonymous call of Article::editable against a store that has users and groups.
Wit_C4_AnonymousArticleCall ==
    /\ resp.op = "Article::editable"
    /\ resp.session = None
    /\ resp.entity.author \in DOMAIN users
    /\ DOMAIN groups # {}

\* C5: a permission check for an actor whose user row or group row is missing returns
\* the error; it never answers false.
Thm_C5_MissingRowIsError ==
    /\ (resp.op \in SessionOps /\ resp.session # None /\ resp.q # <<>>
           /\ ~ActorResolvable(Unwrap(resp.session)))
           => resp.res = "err"
    /\ (resp.op = "User::allowed" /\ resp.entity.group \notin DOMAIN groups)
           => resp.res = "err"

\* Session::allowed is asked for a session whose user row is gone.
Wit_C5_UserRowMissing ==
    /\ resp.op = "Session::allowed"
    /\ Unwrap(resp.session).user \notin DOMAIN users
    /\ DOMAIN groups # {}
    /\ resp.res = "err"

\* ------------------------------------------------------------------ what the tree claims speak of

\* The nodes of a forest in preorder, each with the id of the node it hangs under.
RECURSIVE Entries(_, _)
Entries(nodes, under) ==
    IF nodes = <<>> THEN <<>>
    ELSE <<[c |-> Head(nodes).comment, under |-> under]>>
         \o Entries(Head(nodes).children, Some(Head(nodes).comment.id))
         \o Entries(Tail(nodes), under)

\* The nodes themselves, in preorder.
RECURSIVE AllNodes(_)
AllNodes(nodes) ==
    IF nodes = <<>> THEN <<>>
    ELSE <<Head(nodes)>> \o AllNodes(Head(nodes).children) \o AllNodes(Tail(nodes))

\* How often the comment with this id sits in the forest, and how often under `under`.
Times(entries, id) == Cardinality({ i \in DOMAIN entries : entries[i].c.id = id })
TimesUnder(entries, id, under) ==
    Cardinality({ i \in DOMAIN entries : entries[i].c.id = id /\ entries[i].under = under })

HasRow(flat, id) == \E d \in Range(flat) : d.id = id

\* An orphan: its parent id is the id of no comment of the list.
Orphan(c, flat) == c.parent # None /\ ~HasRow(flat, Unwrap(c.parent))

\* The row of the list with this id (ids are the primary key).
RowOf(flat, id) == CHOOSE d \in Range(flat) : d.id = id

\* The chain of parents of c inside the list ends, within n steps, at a comment
\* without parent.
RECURSIVE RootedIn(_, _, _)
RootedIn(c, flat, n) ==
    \/ c.parent = None
    \/ /\ n > 0
       /\ HasRow(flat, Unwrap(c.parent))
       /\ RootedIn(RowOf(flat, Unwrap(c.parent)), flat, n - 1)

Rooted(c, flat) == RootedIn(c, flat, Len(flat))

\* The number of ancestors of a rooted comment.
RECURSIVE Depth(_, _)
Depth(c, flat) ==
    IF c.parent = None THEN 0 ELSE 1 + Depth(RowOf(flat, Unwrap(c.parent)), flat)

\* The k-th ancestor of a rooted comment, k at most its depth.
RECURSIVE Ancestor(_, _, _)
Ancestor(c, flat, k) ==
    IF k = 0 THEN c ELSE Ancestor(RowOf(flat, Unwrap(c.parent)), flat, k - 1)

Position(flat, id) == CHOOSE i \in DOMAIN flat : flat[i].id = id

\* The comments of the sequence of nodes keep the order they have in the list.
InFlatOrder(nodes, flat) ==
    \A i, j \in DOMAIN nodes :
        i < j => Position(flat, nodes[i].comment.id) < Position(flat, nodes[j].comment.id)

\* C6, as claimed: in the forest of comment::list every comment with a parent sits
\* exactly once, under its parent's node, every comment without parent exactly once as
\* a root, and the forest has as many nodes as the list has comments that are no orphans.
Orig_C6_CountsNonOrphans ==
    resp.op = "list" =>
        LET flat == ListFlat(resp.article)
            E == Entries(resp.body, None)
        IN  /\ \A c \in Range(flat) :
                   c.parent = None => Times(E, c.id) = 1 /\ TimesUnder(E, c.id, None) = 1
            /\ \A c \in Range(flat) :
                   (c.parent # None /\ Times(E, Unwrap(c.parent)) > 0)
                       => Times(E, c.id) = 1 /\ TimesUnder(E, c.id, c.parent) = 1
            /\ Len(E) = Cardinality({ c \in Range(flat) : ~Orphan(c, flat) })

\* C6, amended: the forest holds exactly the comments whose chain of parents inside the
\* list ends at a comment without parent, each exactly once: as a root if it has no
\* parent, under its parent's node otherwise.  Its node count is the number of those
\* comments; orphans, what hangs below an orphan and what sits on or below a cycle of
\* parents are left out.
Thm_C6_ForestHoldsRootedComments ==
    resp.op = "list" =>
        LET flat == ListFlat(resp.article)
            E == Entries(resp.body, None)
        IN  /\ \A c \in Range(flat) :
                   Rooted(c, flat)
                       => Times(E, c.id) = 1 /\ TimesUnder(E, c.id, c.parent) = 1
            /\ \A c \in Range(flat) : ~Rooted(c, flat) => Times(E, c.id) = 0
            /\ \A i \in DOMAIN E : E[i].c \in Range(flat)
            /\ Len(E) = Cardinality({ c \in Range(flat) : Rooted(c, flat) })

\* A listed article with a reply in its forest and with a comment that is no orphan
\* and yet hangs under no root.
Wit_C6_ReplyAndUnrootedComment ==
    /\ resp.op = "list"
    /\ \E n \in Range(resp.body) : n.children # <<>>
    /\ \E c \in Range(ListFlat(resp.article)) :
           ~Orphan(c, ListFlat(resp.article)) /\ ~Rooted(c, ListFlat(resp.article))

\* C7: in the forest of comment::list the roots, and the children of every node, keep
\* the relative order they have in the flat list.
Thm_C7_FlatOrderKept ==
    resp.op = "list" =>
        LET flat == ListFlat(resp.article)
            N == AllNodes(resp.body)
        IN  /\ InFlatOrder(resp.body, flat)
            /\ \A i \in DOMAIN N : InFlatOrder(N[i].children, flat)

\* A listed article in which one comment has two replies.
Wit_C7_TwoSiblings ==
    /\ resp.op = "list"
    /\ \E n \in Range(resp.body) : Len(n.children) >= 2

\* C8: an orphan is in the forest of comment::list neither as a root nor as a child,
\* and listing an article that has one is no error.
Thm_C8_OrphansLeftOut ==
    resp.op = "list" =>
        LET flat == ListFlat(resp.article)
            N == AllNodes(resp.body)
        IN  /\ resp.status = "ok"
            /\ \A c \in Range(flat) :
                   Orphan(c, flat) => \A i \in DOMAIN N : N[i].comment.id # c.id

\* A listed article with an orphan beside a root: the forest is not empty and the
\* orphan is not in it.
Wit_C8_OrphanBesideTree ==
    /\ resp.op = "list"
    /\ \E c \in Range(ListFlat(resp.article)) : Orphan(c, ListFlat(resp.article))
    /\ resp.body # <<>>

\* The comment a view request names, if the store has it.
Target == LET HasId(c) == c.id = resp.id IN Find(SelectSeq(comments, HasId))

\* The number of ancestors the target has in its article's list; on a cycle of parents,
\* the number of steps counted before the list's length is reached.
RECURSIVE Steps(_, _, _)
Steps(c, flat, n) ==
    IF n = 0 \/ c.parent = None \/ ~HasRow(flat, Unwrap(c.parent)) THEN 0
    ELSE 1 + Steps(RowOf(flat, Unwrap(c.parent)), flat, n - 1)

\* The comment reached from c by k steps to the parent, k at most Steps.
RECURSIVE Up(_, _, _)
Up(c, flat, k) == IF k = 0 THEN c ELSE Up(RowOf(flat, Unwrap(c.parent)), flat, k - 1)

\* C9, as claimed: for a stored comment and a depth k of at most its number of
\* ancestors, comment::view returns one node, rooted at the k-th ancestor, with the
\* descendants comment::list attaches; for k = 0 the root is the comment itself.
Orig_C9_ViewRootedAtKthAncestor ==
    (resp.op = "view" /\ Target # None) =>
        LET c == Unwrap(Target)
            flat == ListFlat(c.article)
        IN  resp.context <= Steps(c, flat, Len(flat)) =>
                /\ resp.status = "ok"
                /\ resp.body # None
                /\ Unwrap(resp.body).comment = Up(c, flat, resp.context)
                /\ Unwrap(resp.body) =
                       Populate(Up(c, flat, resp.context), flat, Len(flat) + 1)

\* C9 on the comments whose chain of parents ends at a root: there the view is the
\* subtree of the k-th ancestor.
Lem_C9_ViewOfRootedComment ==
    (resp.op = "view" /\ Target # None) =>
        LET c == Unwrap(Target)
            flat == ListFlat(c.article)
        IN  (Rooted(c, flat) /\ resp.context <= Depth(c, flat)) =>
                /\ resp.status = "ok"
                /\ resp.body # None
                /\ Unwrap(resp.body).comment = Ancestor(c, flat, resp.context)
                /\ \E i \in DOMAIN AllNodes(List(c.article)) :
                       AllNodes(List(c.article))[i] = Unwrap(resp.body)

\* C10, as claimed: with a depth beyond the number of ancestors the walk stops at the
\* topmost ancestor, and the view is the subtree of that root comment.
Orig_C10_WalkStopsAtTopmost ==
    (resp.op = "view" /\ Target # None) =>
        LET c == Unwrap(Target)
            flat == ListFlat(c.article)
        IN  (Rooted(c, flat) /\ resp.context > Depth(c, flat)) =>
                /\ resp.status = "ok"
                /\ resp.body # None
                /\ Unwrap(resp.body).comment = Ancestor(c, flat, Depth(c, flat))

\* What the code does there: the walk runs off the root and the view is Ok(None).
Lem_C10_WalkRunsOffTheRoot ==
    (resp.op = "view" /\ Target # None) =>
        LET c == Unwrap(Target)
            flat == ListFlat(c.article)
        IN  (Rooted(c, flat) /\ resp.context > Depth(c, flat)) =>
                resp.status = "ok" /\ resp.body = None

\* C11, as claimed: comment::view of an id that matches no stored comment returns
\* Ok(None), the optional "not found" result, and no error.
Orig_C11_UnknownIdIsNotFound ==
    (resp.op = "view" /\ Target = None) =>
        resp.status = "ok" /\ resp.body = None

\* What the code does there: the lookup of the comment's article fails and view
\* returns that error.
Lem_C11_UnknownIdIsError ==
    (resp.op = "view" /\ Target = None) => resp.status = "err"

\* ------------------------------------------------------------------ the claims on the store

\* The rows of a table that are direct children of the comment numbered id.
ChildrenOf(rows, id) == { i \in DOMAIN rows : rows[i].parent = Some(id) }

\* The table without the row numbered id, the other rows in their order.
Without(rows, id) == LET Others(c) == c.id # id IN SelectSeq(rows, Others)

\* C12: comment::purge of a comment without direct children succeeds and removes
\* that row and no other; of a comment with a direct child it fails with the
\* has-children error and leaves every row of the store as it was.
Thm_C12_PurgeOnlyChildless ==
    (resp.op = "purge" /\ resp.status \notin { "denied", "err" }) =>
        IF ChildrenOf(resp.before, resp.id) = {}
        THEN resp.status = "ok" /\ comments = Without(resp.before, resp.id)
        ELSE resp.status = "children" /\ comments = resp.before

\* A purge refused for a reply, and the table as it was.
Wit_C12_PurgeRefused ==
    /\ resp.op = "purge"
    /\ resp.status = "children"
    /\ \E i \in DOMAIN resp.before : resp.before[i].id = resp.id
    /\ ChildrenOf(resp.before, resp.id) # {}

\* A purge that removed a stored row.
Wit_C12_PurgeDone ==
    /\ resp.op = "purge"
    /\ resp.status = "ok"
    /\ Len(comments) + 1 = Len(resp.before)

\* C13, as claimed: in every reachable state the parent of a stored comment, if it
\* has one, is the id of another stored comment of the same article.
Orig_C13_ParentIsStoredInSameArticle ==
    \A i \in DOMAIN comments :
        comments[i].parent # None =>
            \E j \in DOMAIN comments :
                /\ j # i
                /\ comments[j].id = Unwrap(comments[i].parent)
                /\ comments[j].article = comments[i].article

\* What the code keeps of it: no request other than a submit changes the parent or
\* the article of a row, and a purge removes no row another row names as its parent.
Lem_C13_OnlySubmitSetsParents ==
    resp.op \in { "delete", "restore", "purge" } =>
        /\ \A i \in DOMAIN comments :
               \E j \in DOMAIN resp.before :
                   /\ resp.before[j].id = comments[i].id
                   /\ resp.before[j].parent = comments[i].parent
                   /\ resp.before[j].article = comments[i].article
        /\ \A j \in DOMAIN resp.before :
               ChildrenOf(resp.before, resp.before[j].id) # {} =>
                   \E i \in DOMAIN comments : comments[i].id = resp.before[j].id

\* C14, as claimed: in every reachable state a stored comment without an author has
\* a name, so Comment::author never meets a comment with neither.
Orig_C14_AuthorlessHasName ==
    \A i \in DOMAIN comments :
        comments[i].author = None =>
            /\ comments[i].name # None
            /\ DisplayAuthor(comments[i]).res # "panic"

\* What the code keeps of it: an edit never takes a name away, and an account
\* deletion names every comment it takes the author from.
Lem_C14_NamesAreKept ==
    resp.op \in { "edit", "user_delete" } =>
        \A i \in DOMAIN comments :
            \/ comments[i].name # None
            \/ /\ resp.before[i].name = None
               /\ resp.before[i].author = comments[i].author

\* C15: hiding a comment sets visible to false on that comment and changes nothing
\* else: its other columns stay, no row is removed, no other comment is modified.
Thm_C15_HideOnlyClearsVisible ==
    (resp.op = "delete" /\ resp.status = "ok") =>
        /\ DOMAIN comments = DOMAIN resp.before
        /\ \A i \in DOMAIN comments :
               IF resp.before[i].id = resp.id
               THEN /\ ~comments[i].visible
                    /\ comments[i].id = resp.before[i].id
                    /\ comments[i].parent = resp.before[i].parent
                    /\ comments[i].article = resp.before[i].article
                    /\ comments[i].author = resp.before[i].author
                    /\ comments[i].name = resp.before[i].name
                    /\ comments[i].content = resp.before[i].content
                    /\ comments[i].date = resp.before[i].date
               ELSE comments[i] = resp.before[i]

\* A visible comment with a visible reply is hidden.
Wit_C15_ParentHiddenReplyShown ==
    /\ resp.op = "delete"
    /\ resp.status = "ok"
    /\ \E i, j \in DOMAIN comments :
           /\ resp.before[i].id = resp.id
           /\ resp.before[i].visible
           /\ ~comments[i].visible
           /\ i # j
           /\ comments[j].parent = Some(resp.id)
           /\ comments[j].visible

\* The table with the one column visible of the row numbered id set to v.
WithVisible(rows, id, v) ==
    [i \in DOMAIN rows |-> IF rows[i].id = id THEN [rows[i] EXCEPT !.visible = v] ELSE rows[i]]

\* The row numbered id is in the table and shown.
Shown(rows, id) == \E i \in DOMAIN rows : rows[i].id = id /\ rows[i].visible

\* A restore request answered in this step.
RestoreStep == resp'.op = "restore" /\ <<comments, resp>>' # <<comments, resp>>

RECURSIVE Shape(_)
Shape(node) ==
    [id |-> node.comment.id,
     children |-> [i \in DOMAIN node.children |-> Shape(node.children[i])],
     overflow |-> node.overflow]

ForestShape(nodes) == [i \in DOMAIN nodes |-> Shape(nodes[i])]

ViewShape(v) ==
    [status |-> v.status, body |-> IF v.body = None THEN None ELSE Some(Shape(Unwrap(v.body)))]

\* What a row holds apart from the columns a hide, a restore or an edit writes.
Skeleton(rows) ==
    [i \in DOMAIN rows |->
        [id |-> rows[i].id, parent |-> rows[i].parent, article |-> rows[i].article]]

\* The skeletons of the rows of one article, in the order of the table.
SkeletonOf(article) ==
    LET OfArticle(c) == c.article = article
    IN  SelectSeq(Skeleton(comments), OfArticle)

\* The forest and the view made of skeletons alone: roots populated, and the walk
\* from the row numbered id populated where it ends.
SkeletonForest(list) ==
    LET IsRoot(c) == c.parent = None
        roots == SelectSeq(list, IsRoot)
    IN  [i \in DOMAIN roots |-> Populate(roots[i], list, Len(list) + 1)]

SkeletonView(id, context) ==
    LET HasId(c) == c.id = id
        row == Find(SelectSeq(Skeleton(comments), HasId))
    IN  IF row = None THEN [status |-> "err", body |-> None]
        ELSE LET list == SkeletonOf(Unwrap(row).article)
                 top == AscendTimes(row, list, context)
             IN  IF top = None THEN [status |-> "ok", body |-> None]
                 ELSE IF Populate(Unwrap(top), list, Len(list) + 1).overflow
                 THEN [status |-> "overflow", body |-> None]
                 ELSE [status |-> "ok",
                       body |-> Some(Populate(Unwrap(top), list, Len(list) + 1))]

\* C17: tree construction does not read the visible flag.  Whatever the flags are,
\* the forest of comment::list and the subtree of comment::view have the shape of
\* the forest and the subtree made of the (id, parent, article) columns alone, so a
\* hidden comment keeps its place and its replies stay beneath it.
Thm_C17_ShapeIgnoresVisible ==
    /\ \A a \in ArticleIds :
           ForestShape(List(a)) = ForestShape(SkeletonForest(SkeletonOf(a)))
    /\ \A id \in 1..MaxRows, k \in 0..MaxContext :
           ViewShape(View(id, k)) = ViewShape(SkeletonView(id, k))
    /\ resp.op = "list" =>
           ForestShape(resp.body) = ForestShape(SkeletonForest(SkeletonOf(resp.article)))
    /\ resp.op = "view" =>
           ViewShape(resp) = ViewShape(SkeletonView(resp.id, resp.context))

\* A listed forest in which a hidden comment holds a reply.
Wit_C17_HiddenCommentHoldsReply ==
    /\ resp.op = "list"
    /\ \E i \in DOMAIN AllNodes(resp.body) :
           /\ ~AllNodes(resp.body)[i].comment.visible
           /\ AllNodes(resp.body)[i].children # <<>>

\* ------------------------------------------------------------------ the claims on accounts

\* The i-th row after an account deletion is the row before it, anonymized: no
\* author, the name "[deleted]", the content and the flag as given, the rest kept.
AnonymizedRow(i, content, visible) ==
    comments[i] = [resp.before[i] EXCEPT !.author = None, !.name = Some("[deleted]"),
                                         !.content = content, !.visible = visible]

\* C18, as claimed: after a successful deletion of the account u every comment of u
\* has no author and the name "[deleted]"; with a full purge its content is blank
\* and it is hidden, without one its content and its visible flag are as they were;
\* the comments of others are unchanged and no row is removed.
Orig_C18_OwnershipRemovalKeepsFlag ==
    (resp.op = "user_delete" /\ resp.status = "ok") =>
        /\ DOMAIN comments = DOMAIN resp.before
        /\ \A i \in DOMAIN comments :
               IF resp.before[i].author = Some(resp.id)
               THEN IF resp.purge
                    THEN AnonymizedRow(i, "", FALSE)
                    ELSE AnonymizedRow(i, resp.before[i].content, resp.before[i].visible)
               ELSE comments[i] = resp.before[i]

\* What the code does: the comments of u are hidden with and without a purge; the
\* purge decides about the content alone.
Lem_C18_DeletionHidesEitherWay ==
    (resp.op = "user_delete" /\ resp.status = "ok") =>
        /\ DOMAIN comments = DOMAIN resp.before
        /\ \A i \in DOMAIN comments :
               IF resp.before[i].author = Some(resp.id)
               THEN AnonymizedRow(i, IF resp.purge THEN "" ELSE resp.before[i].content, FALSE)
               ELSE comments[i] = resp.before[i]

\* The tables an account deletion writes are as the request found them.
StoreAsBefore ==
    /\ comments = resp.before
    /\ sessions = resp.sessions_before
    /\ DOMAIN users = resp.users_before

\* C19, as claimed: account deletion is all-or-nothing.  If user::delete returns an
\* error, at whichever step, the store is unchanged: in no state are the user's
\* comments anonymized while the user or its sessions are still there.
Orig_C19_DeletionAllOrNothing ==
    (resp.op = "user_delete" /\ resp.status # "ok") => StoreAsBefore

\* What the code keeps of it: a wrong password, a failed lookup of the hash and a
\* failed update of the comments leave the store unchanged; a failure after the
\* update leaves the comments anonymized and the user row in place.
Lem_C19_EarlyErrorsChangeNothing ==
    (resp.op = "user_delete" /\ resp.status # "ok") =>
        IF resp.status = "wrong password" \/ resp.fault \in { "none", "select", "update" }
        THEN StoreAsBefore
        ELSE /\ DOMAIN users = resp.users_before
             /\ \A i \in DOMAIN comments : comments[i].author # Some(resp.id)

\* ------------------------------------------------------------------ the claims on sessions

\* The request was served behind the middleware.
WasServed == resp.op \in { "request", "logout" }

\* The row the request's cookie named when the request came in, as a set.
Presented == { s \in resp.before : resp.cookie = Some(s.id) }

\* What holds of every served request: an expired session is not attached and its
\* row is gone; an attached session is the row the cookie named, made by a login and
\* not expired; after a logout the row is gone.
ServedAsClaimed ==
    WasServed =>
        /\ \A s \in Presented :
               s.expires < resp.at =>
                   /\ resp.attached = None
                   /\ \A t \in sessions : t.id # s.id
        /\ resp.attached # None =>
               /\ Unwrap(resp.attached) \in Presented
               /\ Unwrap(resp.attached).id < nextSession
               /\ Unwrap(resp.attached).expires >= resp.at
               /\ Unwrap(resp.attached).expires <= resp.at + SessionDays
        /\ (resp.op = "logout" /\ resp.attached # None) =>
               \A t \in sessions : t.id # Unwrap(resp.attached).id

\* What holds of every step: a row enters the table only by a login that answers
\* with it, under an id not drawn before; no row is rewritten; the clock does not
\* run backwards.  So a row that is gone stays gone, and an expired one stays expired.
NoSessionReturns ==
    /\ \A s \in sessions' \ sessions :
           /\ resp'.op = "login"
           /\ resp'.body = Some(s)
           /\ s.id = nextSession
           /\ nextSession' = nextSession + 1
           /\ s.expires = now + SessionDays
    /\ nextSession' >= nextSession
    /\ now' >= now

\* C20: a request that carries the id of an expired session is served as anonymous
\* and the session's row is deleted; a session is an actor only between the login
\* that made it and its logout or expiry; after either, its id authenticates no
\* request again.
Thm_C20_ExpiredOrEndedIsAnonymous ==
    []ServedAsClaimed /\ [][NoSessionReturns]_vars

\* A request with the cookie of a session that expired the day before: served
\* without an actor, the row deleted.
Wit_C20_ExpiredCookiePresented ==
    /\ resp.op = "request"
    /\ resp.attached = None
    /\ \E s \in Presented : s.expires < resp.at /\ s \notin sessions

\* ------------------------------------------------------------------ C24

\* The user a request acts as: the user of its session, None without one.
Actor(session) == IF session = None THEN None ELSE Some(Unwrap(session).user)

\* C24: a submit request that stores a comment stores one whose author is the user
\* of the request's session, None when the request has no session; a request whose
\* post names another author, and a request without a session to a site that takes
\* no guest comments, is denied and stores nothing.
Thm_C24_AuthorIsTheActor ==
    [][\A s \in SubmitSessions, post \in SubmitPosts :
          SubmitReq(s, post) =>
              /\ comments' # comments =>
                    /\ Len(comments') = Len(comments) + 1
                    /\ comments'[Len(comments')].author = Actor(s)
                    /\ post.author = Actor(s)
                    /\ s = None => guest_comments
              /\ (post.author # Actor(s) \/ (s = None /\ ~guest_comments)) =>
                    /\ comments' = comments
                    /\ resp'.status = "denied"]_vars

\* A guest comment and a comment by alice are stored, and a request has been denied.
Wit_C24_GuestAndUserStored ==
    /\ guest_comments
    /\ \E i, j \in DOMAIN comments :
          comments[i].author = None /\ comments[j].author = Some("alice")
    /\ resp.op = "submit"
    /\ resp.status = "denied"

\* ------------------------------------------------------------------ C25

\* C25: as claimed, a comment stored without an author is stored invisible, and a
\* comment stored with an author is stored visible whatever the request carried.
Orig_C25_GuestCommentsStartHidden ==
    (resp.op = "submit" /\ resp.status = "ok") =>
        Unwrap(resp.body).visible = (Unwrap(resp.body).author # None)

\* What the code keeps of it: a comment stored with an author is stored visible,
\* and a comment stored without one is stored as visible as its request said.
Lem_C25_AuthoredCommentsStartVisible ==
    [][\A s \in SubmitSessions, post \in SubmitPosts :
          (SubmitReq(s, post) /\ comments' # comments) =>
              comments'[Len(comments')].visible =
                  IF post.author # None THEN TRUE ELSE post.visible]_vars

\* ------------------------------------------------------------------ C26

\* The columns of a row that CommentChanges does not carry.
Fixed(c) == <<c.id, c.parent, c.article, c.author, c.date>>

\* C26: under submissions and edits every stored comment keeps its id, parent,
\* article, author and date from one state to the next, hence from its creation
\* on, and an edit leaves every comment other than its target as it was.
Thm_C26_EditKeepsIdentity ==
    [][/\ Len(comments') >= Len(comments)
       /\ \A i \in DOMAIN comments : Fixed(comments'[i]) = Fixed(comments[i])
       /\ resp'.op = "edit" =>
             /\ Len(comments') = Len(comments)
             /\ \A i \in DOMAIN comments :
                   comments[i].id # resp'.id => comments'[i] = comments[i]]_vars

\* An edit has changed the name, the content and the visibility of a reply, beside
\* which the store holds another comment.
Wit_C26_ReplyEdited ==
    /\ resp.op = "edit"
    /\ resp.status = "ok"
    /\ Len(comments) = Len(resp.before)
    /\ \E i, j \in DOMAIN comments :
          /\ i # j
          /\ comments[i].id = resp.id
          /\ comments[i].parent # None
          /\ comments[i].name # resp.before[i].name
          /\ comments[i].content # resp.before[i].content
          /\ comments[i].visible # resp.before[i].visible

\* ------------------------------------------------------------------ C22

\* The comments a response carries.  The list and view handlers read no session, so
\* what they answer is what a caller without a session receives.
Returned ==
    IF resp.op = "list" THEN AllNodes(resp.body)
    ELSE IF resp.op = "view" /\ resp.status = "ok" /\ resp.body # None
    THEN AllNodes(<<Unwrap(resp.body)>>)
    ELSE <<>>

\* C22: as claimed, a list or view response carries no comment that its caller may
\* not view: none that Comment::viewable denies to a caller without a session.
Orig_C22_HiddenContentWithheld ==
    \A i \in DOMAIN Returned :
        CommentViewable(Returned[i].comment, None).res = "true"

\* What the code does instead: every stored comment of the article is in the list
\* response, hidden or not, as long as its chain of parents reaches a root.
Lem_C22_ListReturnsHiddenComments ==
    resp.op = "list" =>
        \A j \in DOMAIN comments :
            (comments[j].article = resp.article /\ comments[j].parent = None) =>
                \E i \in DOMAIN Returned : Returned[i].comment = comments[j]

\* ------------------------------------------------------------------ C27

\* Ids are handed out in order and only a purge removes a row: an id below nextId
\* without a row is the id of a purged comment.
Purged(id) == id < nextId /\ ~HasRow(comments, id)

\* C27: as claimed, no stored comment has a purged comment as its parent.
Orig_C27_NoReplyToPurged ==
    \A i \in DOMAIN comments :
        comments[i].parent # None => ~Purged(Unwrap(comments[i].parent))

\* What the code keeps of it: the purge handler holds the store from its check to
\* its delete, so a purge itself leaves no reply behind; a reply to a purged
\* comment is one submitted after the purge.
Lem_C27_PurgeLeavesNoReply ==
    (resp.op = "purge" /\ resp.status = "ok") =>
        \A i \in DOMAIN comments : comments[i].parent # Some(resp.id)

\* ------------------------------------------------------------------ C28

\* C28: as claimed, every parent is the id of an earlier comment, and no view runs
\* out of stack.
Orig_C28_ParentsAreEarlier ==
    /\ \A i \in DOMAIN comments :
          comments[i].parent # None => Unwrap(comments[i].parent) < comments[i].id
    /\ resp.op = "view" => resp.status # "overflow"

\* What the code keeps of it: the comments a list response holds are in a forest,
\* none of them below itself.
Lem_C28_ListedCommentsOnce ==
    resp.op = "list" =>
        \A i, j \in DOMAIN AllNodes(resp.body) :
            AllNodes(resp.body)[i].comment.id = AllNodes(resp.body)[j].comment.id => i = j

\* ------------------------------------------------------------------ C23

CommentOps == { "edit", "delete", "restore", "purge" }
ArticleOps == { "article_submit", "article_edit", "article_delete" }

\* The actor of the last request holds the permission.
Holds(p) == resp.session # None /\ Has(Unwrap(resp.session), p)

\* The article the last request named, in the table it found: its row, if any.
NamedArticle ==
    LET Named(a) == IF resp.path.kind = "id" THEN a.id = resp.path.id
                    ELSE a.url = resp.path.url
    IN  Find(SelectSeq(resp.before, Named))

\* The comment the last request named, in the table it found: its row, if any.
NamedComment ==
    LET Named(c) == c.id = resp.id
    IN  Find(SelectSeq(resp.before, Named))

OwnComment ==
    NamedComment # None /\ Unwrap(NamedComment).author = Some(Unwrap(resp.session).user)

OwnArticle ==
    NamedArticle # None /\ Unwrap(NamedArticle).author = Unwrap(resp.session).user

\* The authorization rule of the endpoint the last request went to.
Passes ==
    CASE resp.op = "edit" ->
            Holds("EditForeignComment") \/ (Holds("EditComment") /\ OwnComment)
      [] resp.op \in { "delete", "restore" } ->
            Holds("DeleteForeignComment") \/ (Holds("DeleteComment") /\ OwnComment)
      [] resp.op = "purge" -> Holds("DeleteForeignComment")
      [] resp.op = "article_edit" ->
            Holds("EditForeignArticle") \/ (Holds("EditArticle") /\ OwnArticle)
      [] resp.op = "article_delete" ->
            Holds("DeleteForeignArticle") \/ (Holds("DeleteArticle") /\ OwnArticle)
      [] resp.op = "article_submit" -> Holds("CreateArticle")

\* The table the endpoint writes is as the request found it.
TableKept ==
    IF resp.op \in CommentOps THEN comments = resp.before ELSE articles = resp.before

\* The row the request named was there to be checked.
TargetFound ==
    IF resp.op \in CommentOps THEN NamedComment # None
    ELSE IF resp.op = "article_submit" THEN TRUE
    ELSE NamedArticle # None

\* C23 as claimed: a request that does not pass the rule of its endpoint is answered
\* 'Permission denied' and leaves the store unchanged.
Orig_C23_FailingRuleIsDenied ==
    (resp.op \in CommentOps \cup ArticleOps /\ ~Passes) =>
        resp.status = "denied" /\ TableKept

GateKept ==
    resp.op \in CommentOps \cup ArticleOps =>
        /\ ~TableKept => Passes /\ resp.status = "ok"
        /\ ~Passes => resp.status \in { "denied", "err" }
        /\ (~Passes /\ TargetFound) => resp.status = "denied"
        /\ (~Passes /\ resp.status = "err") => ~TargetFound

OtherTableKept ==
    /\ resp'.op \in CommentOps => articles' = articles
    /\ resp'.op \in ArticleOps => comments' = comments
    /\ <<comments, articles>>' # <<comments, articles>> => resp'.status = "ok"

\* C23: a comment or article mutation endpoint changes the store only for a request
\* that passes its authorization rule; a request that does not pass it changes
\* nothing and is answered 'Permission denied' when the row it names is stored, and
\* with the store's error when that row is missing.
Thm_C23_StoreChangesOnlyIfAuthorized == []GateKept /\ [][OtherTableKept]_vars

\* bob, who may edit his own articles, is denied the edit of an article of alice's.
Wit_C23_ForeignArticleDenied ==
    /\ resp.op = "article_edit"
    /\ resp.session = Some(Session("bob"))
    /\ resp.status = "denied"
    /\ NamedArticle # None
    /\ Unwrap(NamedArticle).author = "alice"
    /\ Holds("EditArticle")

\* ------------------------------------------------------------------ C29

\* C29: as claimed, a profile post changes the table users only when its session
\* may edit the user it names: User::editable holds for the row and the session.
Orig_C29_ProfileNeedsEditable ==
    (resp.op = "profile" /\ users # resp.before) =>
        UserEditable(resp.before[resp.id], resp.session).res = "true"

\* What the code keeps of it: a profile post writes the name and the email of the
\* row it names, and nothing else.
Lem_C29_ProfileWritesOneRow ==
    resp.op = "profile" =>
        /\ DOMAIN users = DOMAIN resp.before
        /\ \A u \in DOMAIN users :
              /\ u # resp.id => users[u] = resp.before[u]
              /\ users[u].group = resp.before[u].group
              /\ users[u].hash = resp.before[u].hash

\* ------------------------------------------------------------------ C21

\* The request of thread i has worked on the store and will do so again: it is
\* past the lookup of its cookie and before its handler, or past the count of
\* the users and before the signup.
Midway(i) ==
    \/ requests[i].pc \in { "list", "init_setup_post" } /\ requests[i].cookie # None
    \/ requests[i].pc = "signup_post"

\* Thread j is at work on the store: it holds the Mutex in a scope that reads or
\* writes a table (put_session reads none without a cookie).
Operating(j) ==
    /\ lock = j
    /\ ~(requests[j].pc = "put_session" /\ requests[j].cookie = None)

\* C21: as claimed, no request works on the store between two store operations of
\* another request.
Orig_C21_RequestsAreSerial ==
    \A i, j \in Slots : (i # j /\ Midway(i)) => ~Operating(j)

\* What the code keeps of it: the Mutex has one holder at a time, who is inside a
\* scope, and the tables change only in a step of the holder.
Lem_C21_ScopesAreExclusive ==
    /\ [](\A i \in Slots :
             lock = i <=> requests[i].pc \in { "put_session", "listing", "count", "create" })
    /\ [][<<users, sessions>>' # <<users, sessions>> => (lock # 0 /\ lock' = 0)]_vars

\* ------------------------------------------------------------------ C30

\* C30: as claimed, the initial setups create one user at most, and each of them
\* either created a user or failed with 'Initial setup already complete'.
Orig_C30_OneSetupWins ==
    /\ UserCount <= 1
    /\ \A i \in Slots :
          (requests[i].kind = "setup" /\ requests[i].pc = "done") =>
              requests[i].status \in { "created", "complete" }

\* What the code keeps of it: a setup that counts a user creates none, so users
\* are created only by the setups that counted before the first user was stored.
Lem_C30_NoSetupAfterFirstUser ==
    [][\A i \in Slots :
          (requests[i].pc = "count" /\ UserCount > 0) =>
              /\ requests'[i].pc # "signup_post"
              /\ (requests'[i] # requests[i] => requests'[i].status = "complete")]_vars

====
